---- MODULE Spec2Model ----
(***************************************************************************)
(* A model of llama.rs: the checkpoint loader (model.rs, weights.rs), the  *)
(* inference state (state.rs), the forward pass with its per-head fan-out  *)
(* (model.rs, ops.rs), the sampler (sample.rs) and the driving loop        *)
(* (main.rs).                                                              *)
(*                                                                         *)
(* Numbers.  An f32 is modelled as a fixed-point integer: the integer n    *)
(* stands for n/ONE.  Sums are exact, products and quotients are rounded   *)
(* (towards minus infinity) to a multiple of 1/ONE, which is how rounding  *)
(* drift enters.  exp, sqrt, sin and cos are fixed-point tables with the   *)
(* exact values at 0 (exp 0 = 1, sin 0 = 0, cos 0 = 1).  The one           *)
(* non-finite value is NaN, which every comparison answers FALSE.          *)
(* Vectors are functions over 0..n-1, as the source indexes them.          *)
(***************************************************************************)
EXTENDS Integers, Sequences, FiniteSets, TLC

VARIABLES
    file,           \* the checkpoint file given to load_model
    loaded,         \* what load_model returned: tag Ok / Io / Panic / None
    pc,             \* position of main
    args,           \* main's options: steps, temp, topp
    tokens,         \* the encoded prompt (0-based)
    state,          \* the LlamaState
    pos, token, step,   \* main's loop variables
    layer,          \* forward's loop variable l
    head_outputs,   \* per-head results of the fan-out that have completed
    calls,          \* history: the (token, pos) of every forward call
    produced,       \* history: every next_token and where it came from
    entry,          \* history: the LlamaState as the current forward call got it
    order,          \* history: heads of the current fan-out, in completion order
    cwlog,          \* history: (layer, pos) of every cache write
    s_in, s_out     \* SpecSample: the sampler's arguments and its result

vars == <<file, loaded, pc, args, tokens, state, pos, token, step, layer,
          head_outputs, calls, produced, entry, order, cwlog, s_in, s_out>>

mainVars == <<args, tokens, state, pos, token, step, layer, head_outputs,
              calls, produced, entry, order, cwlog>>

sampleVars == <<s_in, s_out>>

----------------------------------------------------------------------------
(* Bounds of the model *)

ONE == 16           \* fixed-point unit: the integer ONE stands for 1.0
MaxDim == 3         \* header field dim ranges over 1..MaxDim in SpecLoad
MaxHeads == 3       \* header fields n_heads, n_kv_heads range over 0..MaxHeads

----------------------------------------------------------------------------
(* Small helpers *)

Min(a, b) == IF a < b THEN a ELSE b

\* v[a..b] of a 0-based vector, re-based at 0 (Rust: v[a..b].to_vec()).
Slice(v, a, b) == [i \in 0..(b - a - 1) |-> v[a + i]]

Len0(v) == Cardinality(DOMAIN v)

Zeros(n) == [i \in 0..(n - 1) |-> 0]

----------------------------------------------------------------------------
(* config.rs *)

\* LlamaConfig::kv_dim; i32 division, defined for n_heads # 0 only.
kv_dim(c) == (c.dim * c.n_kv_heads) \div c.n_heads

head_size(c) == c.dim \div c.n_heads

group_size(c) == c.n_heads \div c.n_kv_heads

\* The Configuration invariant of the specification; no code checks it.
ValidConfig(c) ==
    /\ c.n_heads # 0 /\ c.n_kv_heads # 0
    /\ c.n_heads % c.n_kv_heads = 0
    /\ c.dim % c.n_heads = 0

----------------------------------------------------------------------------
(* The checkpoint file: 32-bit little-endian words.  Words 0..6 are the    *)
(* header, the words after it are floats.  file.nbytes is the length of   *)
(* the file in bytes, so a file may end inside a word.  The float at word  *)
(* k is given by its content pattern: "index" files hold the word index    *)
(* itself (every float distinct and non-zero), "mix" files small values.   *)

HeaderWords == 7

FloatAt(pattern, k) ==
    IF pattern = "index" THEN k
    ELSE (((k * 7 + 3) % 5) - 2) * (ONE \div 2) + (IF k % 3 = 0 THEN ONE ELSE 3)

WordAt(f, k) ==
    IF k < HeaderWords THEN f.header[k + 1] ELSE FloatAt(f.pattern, k)

\* byteorder read_i32 / read_f32 on the BufReader at byte offset off:
\* read_exact of 4 bytes, UnexpectedEof when fewer remain.
read_word(f, off) ==
    IF off + 4 <= f.nbytes
    THEN [ok |-> TRUE, val |-> WordAt(f, off \div 4), off |-> off + 4]
    ELSE [ok |-> FALSE, val |-> 0, off |-> f.nbytes]

\* A seeded defect of read_f32_vec: a short read leaves the rest of the
\* zero-initialised buffer as it is and reports success.
read_f32_vec_zero_fill(f, off, count) ==
    LET avail == Min(count, (f.nbytes - off) \div 4)
    IN  [ok |-> TRUE,
         buf |-> [i \in 0..(count - 1) |->
                     IF i < avail THEN WordAt(f, off \div 4 + i) ELSE 0],
         off |-> off + 4 * avail]

\* weights.rs read_f32_vec: buf = vec![0; count]; every element is read in
\* order with read_f32; the first failing read returns the error and drops
\* buf.  The loop is summarised: element i is word off/4 + i.
read_f32_vec(f, off, count) ==
    LET avail == Min(count, (f.nbytes - off) \div 4)
    IN  IF avail < count
        THEN [ok |-> FALSE, buf |-> << >>, off |-> f.nbytes]
        ELSE [ok |-> TRUE,
              buf |-> [i \in 0..(count - 1) |-> WordAt(f, off \div 4 + i)],
              off |-> off + 4 * count]

\* Order and sizes of the flat regions as LlamaWeights::load reads them:
\* embed_tokens, rms_att_flat, wq_flat, wk_flat, wv_flat, wo_flat,
\* rms_ffn_flat, gate_flat, up_flat, down_flat, norm -- a seeded defect
\* that reads up before down.
ReadUpBeforeDown(c) ==
    <<"embed_tokens", "rms_att_flat", "wq_flat", "wk_flat", "wv_flat",
      "wo_flat", "rms_ffn_flat", "gate_flat", "up_flat", "down_flat", "norm">>

\* The order in which LlamaWeights::load reads the flat regions.
ReadOrder(c) ==
    <<"embed_tokens", "rms_att_flat", "wq_flat", "wk_flat", "wv_flat",
      "wo_flat", "rms_ffn_flat", "gate_flat", "down_flat", "up_flat", "norm">>

\* The element count LlamaWeights::load asks for, per flat region.
RegionCount(c, name) ==
    LET dim == c.dim
        hdim == c.hidden_dim
        n_layers == c.n_layers
        vocab == c.vocab_size
    IN  CASE name = "embed_tokens" -> vocab * dim
          [] name = "rms_att_flat" -> n_layers * dim
          [] name = "wq_flat" -> n_layers * dim * dim
          [] name = "wk_flat" -> n_layers * dim * kv_dim(c)
          [] name = "wv_flat" -> n_layers * dim * kv_dim(c)
          [] name = "wo_flat" -> n_layers * dim * dim
          [] name = "rms_ffn_flat" -> n_layers * dim
          [] name = "gate_flat" -> n_layers * hdim * dim
          [] name = "down_flat" -> n_layers * dim * hdim
          [] name = "up_flat" -> n_layers * hdim * dim
          [] name = "norm" -> dim

RegionNames == {"embed_tokens", "rms_att_flat", "wq_flat", "wk_flat", "wv_flat",
                "wo_flat", "rms_ffn_flat", "gate_flat", "down_flat", "up_flat",
                "norm"}

\* The reads of LlamaWeights::load, lines 52-64, in order from region k on;
\* `?` returns at the first error.  flat maps the regions read so far.
RECURSIVE ReadFlat(_, _, _, _, _)
ReadFlat(f, off, c, k, flat) ==
    IF k > Len(ReadOrder(c)) THEN [ok |-> TRUE, flat |-> flat, off |-> off]
    ELSE LET name == ReadOrder(c)[k]
             r == read_f32_vec(f, off, RegionCount(c, name))
         IN  IF ~r.ok THEN [ok |-> FALSE, flat |-> flat, off |-> r.off]
             ELSE ReadFlat(f, r.off, c, k + 1,
                           [flat EXCEPT ![name] = r.buf])

\* The per-layer record built at lines 68-90.
LayerWeights(c, flat, l) ==
    LET dim == c.dim
        hdim == c.hidden_dim
        kvd == kv_dim(c)
    IN  [attn_norm |-> Slice(flat["rms_att_flat"], l * dim, (l + 1) * dim),
         q_proj |-> Slice(flat["wq_flat"], l * dim * dim, (l + 1) * dim * dim),
         k_proj |-> Slice(flat["wk_flat"], l * dim * kvd, (l + 1) * dim * kvd),
         v_proj |-> Slice(flat["wv_flat"], l * dim * kvd, (l + 1) * dim * kvd),
         o_proj |-> Slice(flat["wo_flat"], l * dim * dim, (l + 1) * dim * dim),
         ffn_norm |-> Slice(flat["rms_ffn_flat"], l * dim, (l + 1) * dim),
         gate_proj |-> Slice(flat["gate_flat"], l * hdim * dim, (l + 1) * hdim * dim),
         up_proj |-> Slice(flat["up_flat"], l * hdim * dim, (l + 1) * hdim * dim),
         down_proj |-> Slice(flat["down_flat"], l * dim * hdim, (l + 1) * dim * hdim)]

NoWeights == [embed_tokens |-> << >>, layers |-> << >>, norm |-> << >>]

NoConfig == [dim |-> 0, hidden_dim |-> 0, n_layers |-> 0, n_heads |-> 0,
             n_kv_heads |-> 0, vocab_size |-> 0, seq_len |-> 0]

\* LlamaWeights::load.  config.kv_dim() divides by n_heads: a zero n_heads
\* panics (integer division by zero) before anything is read.
LlamaWeights_load(f, off, c) ==
    IF c.n_heads = 0 THEN [tag |-> "Panic", weights |-> NoWeights, off |-> off]
    ELSE LET r == ReadFlat(f, off, c, 1, [n \in RegionNames |-> << >>])
         IN  IF ~r.ok THEN [tag |-> "Io", weights |-> NoWeights, off |-> r.off]
             ELSE [tag |-> "Ok",
                   weights |->
                     [embed_tokens |-> r.flat["embed_tokens"],
                      layers |-> [l \in 0..(c.n_layers - 1) |->
                                     LayerWeights(c, r.flat, l)],
                      norm |-> r.flat["norm"]],
                   off |-> r.off]

\* The seven read_i32 of load_model, in field order; `?` returns the first
\* error.
RECURSIVE ReadHeader(_, _, _, _)
ReadHeader(f, off, k, acc) ==
    IF k = HeaderWords THEN [ok |-> TRUE, vals |-> acc, off |-> off]
    ELSE LET r == read_word(f, off)
         IN  IF ~r.ok THEN [ok |-> FALSE, vals |-> acc, off |-> r.off]
             ELSE ReadHeader(f, r.off, k + 1, Append(acc, r.val))

\* model.rs load_model: the header, then the weights; no field is validated.
load_model(f) ==
    LET h == ReadHeader(f, 0, 0, << >>)
    IN  IF ~h.ok
        THEN [tag |-> "Io", config |-> NoConfig, weights |-> NoWeights, off |-> h.off]
        ELSE LET c == [dim |-> h.vals[1], hidden_dim |-> h.vals[2],
                       n_layers |-> h.vals[3], n_heads |-> h.vals[4],
                       n_kv_heads |-> h.vals[5], vocab_size |-> h.vals[6],
                       seq_len |-> h.vals[7]]
                 w == LlamaWeights_load(f, h.off, c)
             IN  [tag |-> w.tag,
                  config |-> IF w.tag = "Ok" THEN c ELSE NoConfig,
                  weights |-> w.weights,
                  off |-> w.off]

NotLoaded == [tag |-> "None", config |-> NoConfig, weights |-> NoWeights, off |-> 0]

----------------------------------------------------------------------------
(* ops.rs, in fixed-point arithmetic *)

NaN == 1000000      \* f32::NAN (and the infinities): the non-finite value

Finite(a) == a # NaN

FMul(a, b) == (a * b) \div ONE

\* a / b; a zero divisor gives an infinity or NaN.
FDiv(a, b) == IF b = 0 THEN NaN ELSE (a * ONE) \div b

\* sqrt, rounded down.
FSqrt(a) == CHOOSE r \in 0..(a + ONE) : r * r <= a * ONE /\ (r + 1) * (r + 1) > a * ONE

\* exp: monotone, exp(0) = 1, positive for every argument above -ONE*ONE.
FExp(d) ==
    IF d <= 0 THEN (ONE * ONE) \div (ONE - d)
    ELSE ONE + d + (d * d) \div (2 * ONE)

\* sin_cos of an angle, quantised to quarter turns; sin 0 = 0, cos 0 = 1.
FSin(v) == LET k == (v \div ONE) % 4
           IN  IF k = 1 THEN ONE ELSE IF k = 3 THEN 0 - ONE ELSE 0

FCos(v) == LET k == (v \div ONE) % 4
           IN  IF k = 0 THEN ONE ELSE IF k = 2 THEN 0 - ONE ELSE 0

\* 1.0 / 10000^(head_dim / head_size): 1 for head_dim = 0, below the
\* fixed-point resolution for every other pair.
RopeFreq(head_dim, hs) == IF head_dim = 0 THEN ONE ELSE 0

RECURSIVE SumTo(_, _)
\* f[0] + ... + f[n-1]
SumTo(f, n) == IF n <= 0 THEN 0 ELSE f[n - 1] + SumTo(f, n - 1)

RECURSIVE MaxTo(_, _)
\* max of f[0..n-1], n >= 1
MaxTo(f, n) ==
    IF n <= 1 THEN f[0]
    ELSE LET m == MaxTo(f, n - 1) IN IF f[n - 1] > m THEN f[n - 1] ELSE m

RMS_EPS == 1        \* 1e-5, as the smallest positive fixed-point number

\* ops.rs rms_norm: dest[i] = weight[i] * (inv * src[i]) for i < dest.len().
rms_norm(dest, src, weight) ==
    LET n == Len0(src)
        ss == SumTo([i \in DOMAIN src |-> FMul(src[i], src[i])], n)
        inv == FDiv(ONE, FSqrt(ss \div n + RMS_EPS))
    IN  [i \in DOMAIN dest |-> FMul(weight[i], FMul(inv, src[i]))]

\* ops.rs matmul: xout[i] = sum_j w[i * in_dim + j] * x[j].
matmul(xout, x, w) ==
    LET in_dim == Len0(x)
    IN  [i \in DOMAIN xout |->
            SumTo([j \in 0..(in_dim - 1) |-> FMul(w[i * in_dim + j], x[j])], in_dim)]

\* ops.rs accum: a += b.
accum(a, b) == [i \in DOMAIN a |-> IF i \in DOMAIN b THEN a[i] + b[i] ELSE a[i]]

\* ops.rs softmax, in place.  A non-finite element makes the sum NaN and
\* with it every element.
softmax(x) ==
    IF DOMAIN x = {} THEN x
    ELSE IF \E i \in DOMAIN x : ~Finite(x[i]) THEN [i \in DOMAIN x |-> NaN]
    ELSE LET n == Len0(x)
             max_val == MaxTo(x, n)
             e == [i \in DOMAIN x |-> FExp(x[i] - max_val)]
             sum == SumTo(e, n)
         IN  [i \in DOMAIN x |-> FDiv(e[i], sum)]

\* ops.rs apply_rotary_emb: pairs (i, i+1), i even, rotated by p * freq.
apply_rotary_emb(x, p, hs) ==
    [j \in DOMAIN x |->
        LET i == j - (j % 2)
            val == FMul(p * ONE, RopeFreq(i % hs, hs))
            fci == FSin(val)
            fcr == FCos(val)
        IN  IF j = i THEN FMul(x[i], fcr) - FMul(x[i + 1], fci)
            ELSE FMul(x[i], fci) + FMul(x[i + 1], fcr)]

\* ops.rs swiglu: gate = gate * sigmoid(gate) * up.
swiglu(gate, up) ==
    [i \in DOMAIN gate |->
        LET sigmoid == FDiv(ONE, ONE + FExp(0 - gate[i]))
        IN  FMul(FMul(gate[i], sigmoid), up[i])]

----------------------------------------------------------------------------
(* state.rs *)

\* LlamaState::new: every buffer zero, sized from the configuration.
LlamaState_new(c) ==
    [x |-> Zeros(c.dim), xb |-> Zeros(c.dim), xb2 |-> Zeros(c.dim),
     hb |-> Zeros(c.hidden_dim), hb2 |-> Zeros(c.hidden_dim),
     q |-> Zeros(c.dim), k |-> Zeros(kv_dim(c)), v |-> Zeros(kv_dim(c)),
     att |-> [h \in 0..(c.n_heads - 1) |-> Zeros(c.seq_len)],
     logits |-> Zeros(c.vocab_size),
     key_cache |-> [l \in 0..(c.n_layers - 1) |-> Zeros(c.seq_len * kv_dim(c))],
     value_cache |-> [l \in 0..(c.n_layers - 1) |-> Zeros(c.seq_len * kv_dim(c))]]

----------------------------------------------------------------------------
(* model.rs: the forward pass, one operator per stage *)

\* forward, lines 42-48: the token's embedding row is copied into x.
embed(st, tok, c, w) ==
    [st EXCEPT !.x = Slice(w.embed_tokens, tok * c.dim, tok * c.dim + c.dim)]

\* attention, lines 78-88: input norm, QKV projections, RoPE.
attention_qkv(st, p, c, lw) ==
    LET xb == rms_norm(st.xb, st.x, lw.attn_norm)
        q == matmul(st.q, xb, lw.q_proj)
        k == matmul(st.k, xb, lw.k_proj)
        v == matmul(st.v, xb, lw.v_proj)
    IN  [st EXCEPT !.xb = xb,
                   !.q = apply_rotary_emb(q, p, head_size(c)),
                   !.k = apply_rotary_emb(k, p, head_size(c)),
                   !.v = v]

\* A seeded defect: the cache is addressed with the head size as stride.
cache_offset_head_stride(p, c) == p * head_size(c)

\* attention, line 91: cache_offset = pos * kv_dim.
cache_offset(p, c) == p * kv_dim(c)

\* The cache indices the writes of lines 92-93 address.
CacheSlot(p, c) == cache_offset(p, c)..(cache_offset(p, c) + kv_dim(c) - 1)

\* The slice cache_offset..cache_offset + kv_dim lies inside the cache;
\* when it does not the slice expression panics.
CacheSlotInBounds(st, l, p, c) ==
    p >= 0 /\ cache_offset(p, c) + kv_dim(c) <= Len0(st.key_cache[l])

\* attention, lines 92-93: k and v are copied into the layer's caches.
cache_write(st, l, p, c) ==
    [st EXCEPT
       !.key_cache[l] = [i \in DOMAIN st.key_cache[l] |->
            IF i \in CacheSlot(p, c) THEN st.k[i - cache_offset(p, c)]
            ELSE st.key_cache[l][i]],
       !.value_cache[l] = [i \in DOMAIN st.value_cache[l] |->
            IF i \in CacheSlot(p, c) THEN st.v[i - cache_offset(p, c)]
            ELSE st.value_cache[l][i]]]

\* A seeded defect: the score loop runs one position too far.
AttendedOneTooFar(p, c) == 0..Min(p + 1, c.seq_len - 1)

\* attention, lines 109 and 125: `for t in 0..=pos`.
Attended(p, c) == 0..p

\* A seeded defect: query heads are dealt round-robin to key/value heads.
kv_head_round_robin(h, c) == h % c.n_kv_heads

\* attention, line 105: kv_h = h / group_size.
kv_head(h, c) == h \div group_size(c)

\* attention, lines 110 and 126: offset of head h's slice at position t.
kv_offset(h, t, c) == t * kv_dim(c) + kv_head(h, c) * head_size(c)

\* The cache indices head h reads (the same in both caches).
HeadReads(h, p, c) ==
    {kv_offset(h, t, c) + i : t \in Attended(p, c), i \in 0..(head_size(c) - 1)}

\* attention, lines 102-134: the closure run for head h; it returns out.
head_attention(h, p, c, q_buf, key_cache, value_cache) ==
    LET hs == head_size(c)
        q == Slice(q_buf, h * hs, h * hs + hs)
        T == Attended(p, c)
        n == Cardinality(T)
        att == [t \in T |->
                  LET k_off == kv_offset(h, t, c)
                      score == SumTo([i \in 0..(hs - 1) |->
                                         FMul(q[i], key_cache[k_off + i])], hs)
                  IN  FDiv(score, FSqrt(hs * ONE))]
        a == softmax(att)
    IN  [i \in 0..(hs - 1) |->
            SumTo([t \in T |-> FMul(a[t], value_cache[kv_offset(h, t, c) + i])], n)]

\* attention, lines 138-147: gather into xb, output projection, residual.
attention_out(st, outs, c, lw) ==
    LET hs == head_size(c)
        xb == [i \in DOMAIN st.xb |->
                 IF i < c.n_heads * hs THEN outs[i \div hs][i % hs]
                 ELSE st.xb[i]]
        xb2 == matmul(st.xb2, xb, lw.o_proj)
    IN  [st EXCEPT !.xb = xb, !.xb2 = xb2, !.x = accum(st.x, xb2)]

\* mlp, lines 151-167.
mlp(st, lw) ==
    LET xb == rms_norm(st.xb, st.x, lw.ffn_norm)
        hb == matmul(st.hb, xb, lw.gate_proj)
        hb2 == matmul(st.hb2, xb, lw.up_proj)
        g == swiglu(hb, hb2)
        xb_down == matmul(xb, g, lw.down_proj)
    IN  [st EXCEPT !.xb = xb_down, !.hb = g, !.hb2 = hb2,
                   !.x = accum(st.x, xb_down)]

\* forward, lines 56-61: final norm and logits with the tied embedding.
final_logits(st, w) ==
    LET x == rms_norm(st.x, st.x, w.norm)
    IN  [st EXCEPT !.x = x, !.logits = matmul(st.logits, x, w.embed_tokens)]

\* One decoder layer with the heads run one after the other.
layer_seq(st, l, p, c, w) ==
    LET s1 == cache_write(attention_qkv(st, p, c, w.layers[l]), l, p, c)
        outs == [h \in 0..(c.n_heads - 1) |->
                    head_attention(h, p, c, s1.q, s1.key_cache[l], s1.value_cache[l])]
    IN  mlp(attention_out(s1, outs, c, w.layers[l]), w.layers[l])

RECURSIVE layers_seq(_, _, _, _, _)
\* Layers 0..n-1 in order.
layers_seq(st, n, p, c, w) ==
    IF n = 0 THEN st ELSE layer_seq(layers_seq(st, n - 1, p, c, w), n - 1, p, c, w)

\* forward as a function of its arguments, for 0 <= p < seq_len.
forward(tok, p, c, st, w) ==
    final_logits(layers_seq(embed(st, tok, c, w), c.n_layers, p, c, w), w)

----------------------------------------------------------------------------
(* sample.rs.  temp and topp are f64: they are held in units of           *)
(* 1/(ONE*ONE), finer than an f32, and `as f32` rounds them to a multiple  *)
(* of 1/ONE.                                                               *)

ONE64 == ONE * ONE      \* 1.0 as an f64

\* `x as f32` of an f64: round to nearest; NaN stays NaN.
F32Of(d) ==
    IF d = NaN THEN NaN
    ELSE IF d >= 0 THEN (d + ONE \div 2) \div ONE
    ELSE 0 - ((ONE \div 2 - d) \div ONE)

\* IEEE comparisons and arithmetic with the non-finite value.
Lt(a, b) == Finite(a) /\ Finite(b) /\ a < b

Gt(a, b) == Lt(b, a)

NAdd(a, b) == IF Finite(a) /\ Finite(b) THEN a + b ELSE NaN

NMul(a, b) == IF Finite(a) /\ Finite(b) THEN FMul(a, b) ELSE NaN

\* l / temp_f32 for a finite l: truncating division; x/0 and x/NaN are
\* non-finite.
NDiv(a, b) ==
    IF ~Finite(a) \/ ~Finite(b) \/ b = 0 THEN NaN
    ELSE IF b > 0 THEN (a * ONE) \div b
    ELSE ((0 - a) * ONE) \div (0 - b)

RECURSIVE ArgmaxFrom(_, _, _, _)
\* The loop of argmax from index i on, with the running maximum.
ArgmaxFrom(x, i, max_idx, max_val) ==
    IF i >= Len0(x) THEN max_idx
    ELSE IF Gt(x[i], max_val) THEN ArgmaxFrom(x, i + 1, i, x[i])
    ELSE ArgmaxFrom(x, i + 1, max_idx, max_val)

RECURSIVE ArgmaxLastFrom(_, _, _, _)
\* A seeded defect: the comparison of argmax is >=, so that the last index
\* holding the maximum wins.
ArgmaxLastFrom(x, i, max_idx, max_val) ==
    IF i >= Len0(x) THEN max_idx
    ELSE IF ~Lt(x[i], max_val) THEN ArgmaxLastFrom(x, i + 1, i, x[i])
    ELSE ArgmaxLastFrom(x, i + 1, max_idx, max_val)

argmax_last_on_ties(x) == ArgmaxLastFrom(x, 1, 0, x[0])

\* sample.rs argmax: the first index holding the maximum.
argmax(x) == ArgmaxFrom(x, 1, 0, x[0])

\* A seeded defect: the fallback of the multinomial walk is one past the end.
multinomial_fallback_off_by_one(n) == n

\* sample.rs line 42: `return (logits.len() - 1)`.
multinomial_fallback(n) == n - 1

RECURSIVE MultinomialFromAtMost(_, _, _, _)
\* A seeded defect: the test of the walk is r <= cdf, so that an index is
\* returned as soon as the cumulative mass reaches the draw.
MultinomialFromAtMost(p, i, cdf, r) ==
    IF i >= Len0(p) THEN multinomial_fallback(Len0(p))
    ELSE LET c == NAdd(cdf, p[i])
         IN  IF Finite(c) /\ r <= c THEN i
             ELSE MultinomialFromAtMost(p, i + 1, c, r)

RECURSIVE MultinomialFrom(_, _, _, _)
\* sample.rs lines 35-41: the walk in index order from index i on.
MultinomialFrom(p, i, cdf, r) ==
    IF i >= Len0(p) THEN multinomial_fallback(Len0(p))
    ELSE LET c == NAdd(cdf, p[i])
         IN  IF Lt(r, c) THEN i ELSE MultinomialFrom(p, i + 1, c, r)

multinomial(p, r) == MultinomialFrom(p, 0, 0, r)

RECURSIVE SortedFrom(_, _)
\* sample.rs lines 46-57: the (prob, index) pairs sorted descending by prob
\* with the stable sort_by: equal (and incomparable) elements keep their
\* index order.  rest is the set of indices not yet placed.
SortedFrom(p, rest) ==
    IF rest = {} THEN << >>
    ELSE LET best == CHOOSE i \in rest :
                        \A j \in rest \ {i} :
                            ~Gt(p[j], p[i]) /\ (~Gt(p[i], p[j]) => i < j)
         IN  <<[prob |-> p[best], index |-> best]>> \o SortedFrom(p, rest \ {best})

sort_desc(p) == SortedFrom(p, DOMAIN p)

RECURSIVE CutFromAtLeast(_, _, _, _)
\* A seeded defect: the cutoff test is >=, so that a prefix whose mass only
\* reaches top_p already ends the candidate set.
CutFromAtLeast(pi, i, cum_prob, topp_f32) ==
    IF i >= Len(pi) THEN [last_idx |-> Len(pi) - 1, cum_prob |-> cum_prob]
    ELSE LET c == NAdd(cum_prob, pi[i + 1].prob)
         IN  IF Finite(c) /\ Finite(topp_f32) /\ c >= topp_f32
             THEN [last_idx |-> i, cum_prob |-> c]
             ELSE CutFromAtLeast(pi, i + 1, c, topp_f32)

RECURSIVE CutFrom(_, _, _, _)
\* sample.rs lines 60-69: the cutoff loop from sorted position i (0-based).
CutFrom(pi, i, cum_prob, topp_f32) ==
    IF i >= Len(pi) THEN [last_idx |-> Len(pi) - 1, cum_prob |-> cum_prob]
    ELSE LET c == NAdd(cum_prob, pi[i + 1].prob)
         IN  IF Gt(c, topp_f32) THEN [last_idx |-> i, cum_prob |-> c]
             ELSE CutFrom(pi, i + 1, c, topp_f32)

RECURSIVE PickFrom(_, _, _, _, _)
\* sample.rs lines 72-81: the walk over the first last_idx + 1 pairs.
PickFrom(pi, i, last_idx, cdf, r_scaled) ==
    IF i > last_idx THEN pi[last_idx + 1].index
    ELSE LET c == NAdd(cdf, pi[i + 1].prob)
         IN  IF Lt(r_scaled, c) THEN pi[i + 1].index
             ELSE PickFrom(pi, i + 1, last_idx, c, r_scaled)

\* sample.rs lines 45-81: nucleus sampling.
nucleus(p, topp_f32, r) ==
    LET prob_index == sort_desc(p)
        cut == CutFrom(prob_index, 0, 0, topp_f32)
        r_scaled == NMul(r, cut.cum_prob)
    IN  PickFrom(prob_index, 0, cut.last_idx, 0, r_scaled)

\* sample.rs sample: the token and the logits buffer as it leaves it.
\* r is the draw of rng.random::<f32>(), 0 <= r < 1.
sample(logits, temp, topp, r) ==
    IF temp = 0 THEN [token |-> argmax(logits), logits |-> logits]
    ELSE LET temp_f32 == F32Of(temp)
             probs == softmax([i \in DOMAIN logits |-> NDiv(logits[i], temp_f32)])
         IN  IF (Finite(topp) /\ topp <= 0) \/ (Finite(topp) /\ topp >= ONE64)
             THEN [token |-> multinomial(probs, r), logits |-> probs]
             ELSE [token |-> nucleus(probs, F32Of(topp), r), logits |-> probs]

----------------------------------------------------------------------------
(* SpecLoad: load_model on every file of the bounded family *)

HeaderOf(f) ==
    [dim |-> f.header[1], hidden_dim |-> f.header[2], n_layers |-> f.header[3],
     n_heads |-> f.header[4], n_kv_heads |-> f.header[5],
     vocab_size |-> f.header[6], seq_len |-> f.header[7]]

\* Number of floats the layout of section 4.1 demands for header c
\* (defined when n_heads # 0).
DeclaredFloats(c) ==
    c.vocab_size * c.dim + c.n_layers * c.dim
    + 2 * c.n_layers * c.dim * c.dim
    + 2 * c.n_layers * c.dim * kv_dim(c)
    + c.n_layers * c.dim
    + 3 * c.n_layers * c.hidden_dim * c.dim
    + c.dim

DeclaredBytes(c) == 4 * (HeaderWords + DeclaredFloats(c))

LoadHeaders ==
    {<<d, h, l, nh, nkv, v, 1>> :
        d \in 1..MaxDim, h \in {1, 2}, l \in {1, 2},
        nh \in 0..MaxHeads, nkv \in 0..MaxHeads, v \in {2}}

\* Every length from the empty file to one word beyond the declared layout.
LoadLengths(hd) ==
    LET c == [dim |-> hd[1], hidden_dim |-> hd[2], n_layers |-> hd[3],
              n_heads |-> hd[4], n_kv_heads |-> hd[5], vocab_size |-> hd[6],
              seq_len |-> hd[7]]
    IN  IF c.n_heads = 0 THEN 0..(4 * HeaderWords + 8)
        ELSE 0..(DeclaredBytes(c) + 4)

\* Values of the variables a specification does not use.
NoArgs == [steps |-> 0, temp |-> 0, topp |-> 0]

NoSample == [token |-> 0, logits |-> << >>]

MainIdle ==
    /\ args = NoArgs /\ tokens = << >> /\ state = << >>
    /\ pos = 0 /\ token = 0 /\ step = 0 /\ layer = 0
    /\ head_outputs = << >> /\ calls = << >> /\ produced = << >>
    /\ entry = << >> /\ order = << >> /\ cwlog = << >>

SampleIdle == s_in = << >> /\ s_out = NoSample

InitLoad ==
    /\ \E hd \in LoadHeaders : \E n \in LoadLengths(hd) :
          file = [header |-> hd, pattern |-> "index", nbytes |-> n]
    /\ loaded = NotLoaded
    /\ pc = "load"
    /\ MainIdle /\ SampleIdle

\* main.rs line 58: load_model(checkpoint_path)?
LoadModel ==
    /\ pc = "load"
    /\ loaded' = load_model(file)
    /\ pc' = IF loaded'.tag = "Ok" THEN "loaded" ELSE "exit"
    /\ UNCHANGED <<file, mainVars, sampleVars>>

NextLoad == LoadModel

SpecLoad == InitLoad /\ [][NextLoad]_vars

----------------------------------------------------------------------------
(* SpecSample: sample on every argument tuple of the bounded family *)

MaxVocab == 3       \* logits vectors of length 1..MaxVocab

LogitVals == {0 - ONE, 0, ONE \div 4, ONE}

SampleTemps == {NaN, 0 - ONE64, 0, 1, ONE64 \div 2, ONE64, 2 * ONE64}

\* ONE64 \div 2 - ONE \div 2 is a double just below 0.5 whose nearest single
\* is 0.5 itself.
SampleTopps == {NaN, 0 - 1, 0, 1, ONE64 \div 2 - ONE \div 2, ONE64 \div 2,
                (9 * ONE64) \div 10, ONE64 - 1, ONE64, 2 * ONE64}

\* The logits [0.1, 5.0, 0.3] of the greedy example, in units of 1/ONE.
ExampleLogits ==
    [i \in 0..2 |-> IF i = 0 THEN ONE \div 10 + 1
                    ELSE IF i = 1 THEN 5 * ONE ELSE (3 * ONE) \div 10 + 1]

SampleLogits ==
    UNION {[0..(n - 1) -> LogitVals] : n \in 1..MaxVocab} \cup {ExampleLogits}

InitSample ==
    /\ \E lg \in SampleLogits :
       \E t \in SampleTemps : \E tp \in SampleTopps : \E r \in 0..(ONE - 1) :
          s_in = [logits |-> lg, temp |-> t, topp |-> tp, r |-> r]
    /\ s_out = NoSample
    /\ pc = "sample"
    /\ file = << >> /\ loaded = NotLoaded
    /\ MainIdle

Sample ==
    /\ pc = "sample"
    /\ s_out' = sample(s_in.logits, s_in.temp, s_in.topp, s_in.r)
    /\ pc' = "sampled"
    /\ UNCHANGED <<file, loaded, mainVars, s_in>>

NextSample == Sample

SpecSample == InitSample /\ [][NextSample]_vars

----------------------------------------------------------------------------
(* Spec: main.rs on well-formed checkpoints *)

MaxSteps == 3       \* --steps ranges over 0..MaxSteps
MaxPrompt == 1      \* the prompt encodes to BOS plus at most MaxPrompt tokens

BOS == 1
EOS == 2

\* Headers of the checkpoints main is run on:
\* dim, hidden_dim, n_layers, n_heads, n_kv_heads, vocab_size, seq_len.
RunHeaders ==
    {<<4, 2, 2, 2, 1, 3, 2>>,       \* grouped-query, two layers
     <<4, 1, 1, 2, 2, 3, 3>>,       \* one key/value head per query head
     <<8, 2, 1, 4, 2, 3, 2>>}       \* four heads in two groups

RunFile(hd) ==
    [header |-> hd, pattern |-> "mix",
     nbytes |-> DeclaredBytes([dim |-> hd[1], hidden_dim |-> hd[2],
                               n_layers |-> hd[3], n_heads |-> hd[4],
                               n_kv_heads |-> hd[5], vocab_size |-> hd[6],
                               seq_len |-> hd[7]])]

\* (temp, topp) pairs: greedy, nucleus, multinomial.
RunSamplers == {<<0, (9 * ONE64) \div 10>>, <<ONE64, (9 * ONE64) \div 10>>,
                <<ONE64, ONE64>>}

Init ==
    /\ \E hd \in RunHeaders : file = RunFile(hd)
    /\ loaded = NotLoaded
    /\ pc = "load"
    /\ \E n \in 0..MaxSteps : \E tt \in RunSamplers :
          args = [steps |-> n, temp |-> tt[1], topp |-> tt[2]]
    /\ tokens = << >> /\ state = << >>
    /\ pos = 0 /\ token = 0 /\ step = 0 /\ layer = 0
    /\ head_outputs = << >> /\ calls = << >> /\ produced = << >>
    /\ entry = << >> /\ order = << >> /\ cwlog = << >>
    /\ SampleIdle

config == loaded.config
weights == loaded.weights

\* What tokenizer.encode(prompt, true, false) can return: BOS, then at most
\* MaxPrompt token ids of the vocabulary.
Prompts(c) ==
    UNION {{[i \in 0..n |-> IF i = 0 THEN BOS ELSE p[i]] :
               p \in [1..n -> 0..(c.vocab_size - 1)]} : n \in 0..MaxPrompt}

\* main.rs lines 64-77: tokenizer, LlamaState::new, encode, pos and token.
Setup ==
    /\ pc = "loaded"
    /\ state' = LlamaState_new(config)
    /\ \E p \in Prompts(config) : tokens' = p /\ token' = p[0]
    /\ pos' = 0
    /\ step' = 0
    /\ pc' = "loop"
    /\ UNCHANGED <<file, loaded, args, layer, head_outputs, calls, produced,
                   entry, order, cwlog, sampleVars>>

\* main.rs lines 64 and 72: load_tokenizer or encode returns an error.
SetupFails ==
    /\ pc = "loaded"
    /\ pc' = "exit"
    /\ UNCHANGED <<file, loaded, mainVars, sampleVars>>

\* main.rs line 79 with step = steps: the loop is over.
LoopExit ==
    /\ pc = "loop"
    /\ step >= args.steps
    /\ pc' = "done"
    /\ UNCHANGED <<file, loaded, mainVars, sampleVars>>

\* main.rs lines 79-80 and forward lines 42-48: the call of forward and its
\* embedding lookup.  No position check precedes the call.
CallForward ==
    /\ pc = "loop"
    /\ step < args.steps
    /\ calls' = Append(calls, [token |-> token, pos |-> pos])
    /\ entry' = state
    /\ state' = embed(state, token, config, weights)
    /\ layer' = 0
    /\ pc' = "attn"
    /\ UNCHANGED <<file, loaded, args, tokens, pos, token, step, head_outputs,
                   produced, order, cwlog, sampleVars>>

\* attention lines 78-93 of layer `layer`: norm, projections, RoPE, then the
\* cache write, whose slice expression panics when the slot is outside the
\* cache -- after xb, q, k and v have been overwritten.
AttentionQKV ==
    /\ pc = "attn"
    /\ LET s1 == attention_qkv(state, pos, config, weights.layers[layer])
       IN  IF CacheSlotInBounds(s1, layer, pos, config)
           THEN /\ state' = cache_write(s1, layer, pos, config)
                /\ cwlog' = Append(cwlog, <<layer, pos>>)
                /\ pc' = "heads"
           ELSE /\ state' = s1
                /\ cwlog' = cwlog
                /\ pc' = "panic"
    /\ head_outputs' = << >>
    /\ order' = << >>
    /\ UNCHANGED <<file, loaded, args, tokens, pos, token, step, layer, calls,
                   produced, entry, sampleVars>>

\* One task of the into_par_iter().map(..) of attention: head h runs the
\* closure on the shared q and caches and yields its own out vector.
HeadTask(h) ==
    /\ pc = "heads"
    /\ h \notin DOMAIN head_outputs
    /\ head_outputs' = (h :> head_attention(h, pos, config, state.q,
                                state.key_cache[layer], state.value_cache[layer]))
                       @@ head_outputs
    /\ order' = Append(order, h)
    /\ UNCHANGED <<file, loaded, pc, args, tokens, state, pos, token, step, layer,
                   calls, produced, entry, cwlog, sampleVars>>

\* A seeded defect: results are gathered in the order the heads completed.
collect_in_completion_order(outs) ==
    [h \in 0..(Len(order) - 1) |-> outs[order[h + 1]]]

\* .collect() of the indexed parallel iterator: element h is head h's result.
collect(outs) == [h \in 0..(config.n_heads - 1) |-> outs[h]]

\* attention lines 138-147, once collect() has every head's result.
AttentionOut ==
    /\ pc = "heads"
    /\ DOMAIN head_outputs = 0..(config.n_heads - 1)
    /\ state' = attention_out(state, collect(head_outputs), config,
                              weights.layers[layer])
    /\ pc' = "mlp"
    /\ UNCHANGED <<file, loaded, args, tokens, pos, token, step, layer,
                   head_outputs, calls, produced, entry, order, cwlog,
                   sampleVars>>

\* forward line 53 and the loop of line 51: mlp of this layer, then the next
\* layer or the final norm.
Mlp ==
    /\ pc = "mlp"
    /\ state' = mlp(state, weights.layers[layer])
    /\ layer' = layer + 1
    /\ pc' = IF layer + 1 < config.n_layers THEN "attn" ELSE "final"
    /\ UNCHANGED <<file, loaded, args, tokens, pos, token, step, head_outputs,
                   calls, produced, entry, order, cwlog, sampleVars>>

\* forward lines 56-61.
FinalLogits ==
    /\ pc = "final"
    /\ state' = final_logits(state, weights)
    /\ pc' = "next"
    /\ UNCHANGED <<file, loaded, args, tokens, pos, token, step, layer,
                   head_outputs, calls, produced, entry, order, cwlog,
                   sampleVars>>

\* A seeded defect: the position is not advanced.
next_pos_stuck(p) == p

\* main.rs line 107: pos += 1.
next_pos(p) == p + 1

\* main.rs lines 82-107 after forward returned: the next token is the next
\* prompt token or the sampler's, EOS ends the loop, otherwise token and pos
\* advance.
NextToken ==
    /\ pc = "next"
    /\ \E r \in 0..(ONE - 1) :
         LET from_prompt == step < Len0(tokens) - 1
             s == sample(state.logits, args.temp, args.topp, r)
             next_token == IF from_prompt THEN tokens[step + 1] ELSE s.token
         IN  /\ state' = IF from_prompt THEN state
                         ELSE [state EXCEPT !.logits = s.logits]
             /\ produced' = Append(produced,
                              [tok |-> next_token,
                               src |-> IF from_prompt THEN "prompt" ELSE "sample"])
             /\ IF next_token = EOS
                THEN pc' = "done" /\ UNCHANGED <<token, pos, step>>
                ELSE /\ token' = next_token
                     /\ pos' = next_pos(pos)
                     /\ step' = step + 1
                     /\ pc' = "loop"
    /\ UNCHANGED <<file, loaded, args, tokens, layer, head_outputs, calls,
                   entry, order, cwlog, sampleVars>>

Next ==
    \/ LoadModel
    \/ Setup
    \/ SetupFails
    \/ LoopExit
    \/ CallForward
    \/ AttentionQKV
    \/ \E h \in 0..(config.n_heads - 1) : HeadTask(h)
    \/ AttentionOut
    \/ Mlp
    \/ FinalLogits
    \/ NextToken

Spec == Init /\ [][Next]_vars

----------------------------------------------------------------------------
(* SpecGqa: the cache indices a head reads, on every valid configuration   *)
(* of the bounded family, every head and every position                    *)

GqaMaxKv == 2       \* n_kv_heads ranges over 1..GqaMaxKv
GqaMaxGroup == 4    \* n_heads / n_kv_heads ranges over 1..GqaMaxGroup
GqaMaxHeadSize == 2 \* dim / n_heads ranges over 1..GqaMaxHeadSize
GqaMaxSeq == 3      \* seq_len ranges over 1..GqaMaxSeq

GqaConfigs ==
    {[dim |-> nkv * g * hs, hidden_dim |-> 1, n_layers |-> 1,
      n_heads |-> nkv * g, n_kv_heads |-> nkv, vocab_size |-> 3, seq_len |-> sl] :
        nkv \in 1..GqaMaxKv, g \in 1..GqaMaxGroup, hs \in 1..GqaMaxHeadSize,
        sl \in 1..GqaMaxSeq}

InitGqa ==
    /\ \E c \in GqaConfigs : \E h \in 0..(c.n_heads - 1) :
       \E p \in 0..(c.seq_len - 1) :
          s_in = [config |-> c, h |-> h, pos |-> p]
    /\ s_out = {}
    /\ pc = "head"
    /\ file = << >> /\ loaded = NotLoaded
    /\ MainIdle

\* The reads of one head task.
ApplyHeadReads ==
    /\ pc = "head"
    /\ s_out' = HeadReads(s_in.h, s_in.pos, s_in.config)
    /\ pc' = "read"
    /\ UNCHANGED <<file, loaded, mainVars, s_in>>

NextGqa == ApplyHeadReads

SpecGqa == InitGqa /\ [][NextGqa]_vars

----------------------------------------------------------------------------
(* Claims about the loader, checked under SpecLoad *)

HeaderRead(f) == f.nbytes >= 4 * HeaderWords

\* The file is shorter than the header plus the floats its header declares.
\* A header with n_heads = 0 declares no layout (kv_dim is undefined).
Truncated(f) ==
    \/ ~HeaderRead(f)
    \/ HeaderOf(f).n_heads # 0 /\ f.nbytes < DeclaredBytes(HeaderOf(f))

\* C2 (as claimed): a header that violates n_heads % n_kv_heads = 0 or
\* dim % n_heads = 0, or has a zero head count, makes load_model return an
\* error, and every configuration load_model yields satisfies the invariant.
C2_LoadRejectsInvalidConfig ==
    /\ (pc # "load" /\ HeaderRead(file) /\ ~ValidConfig(HeaderOf(file)))
          => loaded.tag \in {"Io", "InvalidModel"}
    /\ loaded.tag = "Ok" => ValidConfig(loaded.config)

\* Every element of every loaded tensor is a float word lying wholly inside
\* the file ("index" files hold the word index at each float word, so a
\* zero-filled element would be 0, which is no float word).
FromFile(v, f) ==
    \A i \in DOMAIN v : v[i] >= HeaderWords /\ 4 * (v[i] + 1) <= f.nbytes

NoZeroFill(w, f) ==
    /\ FromFile(w.embed_tokens, f) /\ FromFile(w.norm, f)
    /\ \A l \in DOMAIN w.layers :
          \A fld \in DOMAIN w.layers[l] : FromFile(w.layers[l][fld], f)

C4_Sizes(c) ==
    LET L == c.n_layers
        kvd == (c.dim * c.n_kv_heads) \div c.n_heads
    IN  <<c.vocab_size * c.dim, L * c.dim, L * c.dim * c.dim,
          L * c.dim * kvd, L * c.dim * kvd, L * c.dim * c.dim, L * c.dim,
          L * c.hidden_dim * c.dim, L * c.dim * c.hidden_dim,
          L * c.hidden_dim * c.dim, c.dim>>

RECURSIVE C4_SumBefore(_, _)
C4_SumBefore(sizes, r) == IF r <= 1 THEN 0 ELSE sizes[r - 1] + C4_SumBefore(sizes, r - 1)

\* First word of region r (1..11) of the file.
C4_Start(c, r) == HeaderWords + C4_SumBefore(C4_Sizes(c), r)

\* v is exactly the l-th of the n_layers equal slices of region r.
C4_IsSlice(v, c, r, l) ==
    LET n == C4_Sizes(c)[r] \div c.n_layers
    IN  /\ DOMAIN v = 0..(n - 1)
        /\ \A j \in 0..(n - 1) : v[j] = C4_Start(c, r) + l * n + j

\* v is the whole of region r.
C4_IsRegion(v, c, r) ==
    /\ DOMAIN v = 0..(C4_Sizes(c)[r] - 1)
    /\ \A j \in DOMAIN v : v[j] = C4_Start(c, r) + j

\* C4: for a valid configuration and a file of exactly the declared length,
\* loading succeeds, the regions are consumed in the order embedding,
\* attention-norm, query, key, value, output, ffn-norm, gate, down, up,
\* final-norm with the stated sizes, layer l's fields are the l-th slices of
\* their regions, and the reader ends exactly at the end of the file.
C4_LayoutOrder ==
    (pc # "load" /\ HeaderRead(file) /\ ValidConfig(HeaderOf(file))
       /\ file.nbytes = DeclaredBytes(HeaderOf(file)))
    => /\ loaded.tag = "Ok"
       /\ loaded.config = HeaderOf(file)
       /\ loaded.off = file.nbytes
       /\ LET c == loaded.config
              w == loaded.weights
          IN  /\ C4_IsRegion(w.embed_tokens, c, 1)
              /\ C4_IsRegion(w.norm, c, 11)
              /\ DOMAIN w.layers = 0..(c.n_layers - 1)
              /\ \A l \in DOMAIN w.layers :
                    /\ C4_IsSlice(w.layers[l].attn_norm, c, 2, l)
                    /\ C4_IsSlice(w.layers[l].q_proj, c, 3, l)
                    /\ C4_IsSlice(w.layers[l].k_proj, c, 4, l)
                    /\ C4_IsSlice(w.layers[l].v_proj, c, 5, l)
                    /\ C4_IsSlice(w.layers[l].o_proj, c, 6, l)
                    /\ C4_IsSlice(w.layers[l].ffn_norm, c, 7, l)
                    /\ C4_IsSlice(w.layers[l].gate_proj, c, 8, l)
                    /\ C4_IsSlice(w.layers[l].down_proj, c, 9, l)
                    /\ C4_IsSlice(w.layers[l].up_proj, c, 10, l)

\* C4 witness: a two-layer grouped-query checkpoint (kv_dim < dim) of exactly
\* the declared length was loaded.
C4_Witness ==
    /\ pc = "loaded" /\ loaded.tag = "Ok"
    /\ ValidConfig(loaded.config)
    /\ loaded.config.n_layers = 2
    /\ loaded.config.n_kv_heads < loaded.config.n_heads
    /\ file.nbytes = DeclaredBytes(loaded.config)
----------------------------------------------------------------------------
(* Claims about the driving loop and the forward pass, checked under Spec *)

InForward == pc \in {"attn", "heads", "mlp", "final", "next"}

\* C1 (as claimed): forward is never called with a position outside
\* 0..seq_len-1, and a step rejected for its position has changed nothing
\* of the LlamaState.
C1_OutOfRangeRejectedBeforeMutation ==
    /\ \A k \in 1..Len(calls) : calls[k].pos >= 0 /\ calls[k].pos < config.seq_len
    /\ pc = "panic" => state = entry

\* C5: the k-th forward call (k = 0, 1, ...) is made at position k; the
\* token of call k+1 is the token produced at step k, which is the next
\* prompt token while prompt tokens remain and the sampler's otherwise; and
\* each layer's cache is written at strictly increasing positions.
C5_SequentialPositions ==
    /\ \A k \in 1..Len(calls) : calls[k].pos = k - 1
    /\ \A k \in 2..Len(calls) : calls[k].token = produced[k - 1].tok
    /\ \A k \in 1..Len(produced) :
          IF k < Len0(tokens)
          THEN produced[k].src = "prompt" /\ produced[k].tok = tokens[k]
          ELSE produced[k].src = "sample"
    /\ \A i \in 1..Len(cwlog) : \A j \in (i + 1)..Len(cwlog) :
          cwlog[i][1] = cwlog[j][1] => cwlog[i][2] < cwlog[j][2]

\* C5 witness: a third forward call, after a prompt token and a sampled
\* token were fed back.
C5_Witness ==
    /\ Len(calls) = 3 /\ pc = "next"
    /\ produced[1].src = "prompt" /\ produced[2].src = "sample"
    /\ Len(cwlog) = 3

\* The buffers of a LlamaState keep the lengths they had in `old`.
SameLengths(new, old) ==
    /\ \A b \in {"x", "xb", "xb2", "hb", "hb2", "q", "k", "v", "logits",
                 "att", "key_cache", "value_cache"} :
          DOMAIN new[b] = DOMAIN old[b]
    /\ \A b \in {"att", "key_cache", "value_cache"} :
          \A l \in DOMAIN old[b] : DOMAIN new[b][l] = DOMAIN old[b][l]

\* C6: a forward call at position p, 0 <= p < seq_len, puts the rotated key
\* and the value of each layer into entries p*kv_dim .. (p+1)*kv_dim - 1 of
\* that layer's caches, leaves every other cache entry and every buffer
\* length as the call found them, and entries of later positions stay zero.
C6_CacheFrame ==
    LET kvd == (config.dim * config.n_kv_heads) \div config.n_heads
    IN  /\ (InForward /\ pos < config.seq_len) =>
            /\ SameLengths(state, entry)
            /\ \A l \in DOMAIN state.key_cache : \A i \in DOMAIN state.key_cache[l] :
                  /\ (i < pos * kvd \/ i >= (pos + 1) * kvd) =>
                        /\ state.key_cache[l][i] = entry.key_cache[l][i]
                        /\ state.value_cache[l][i] = entry.value_cache[l][i]
                  /\ i >= (pos + 1) * kvd =>
                        state.key_cache[l][i] = 0 /\ state.value_cache[l][i] = 0
        /\ pc = "heads" =>
            \A i \in 0..(kvd - 1) :
                /\ state.key_cache[layer][pos * kvd + i] = state.k[i]
                /\ state.value_cache[layer][pos * kvd + i] = state.v[i]
        /\ pc = "next" =>
            \A i \in 0..(kvd - 1) :
                /\ state.key_cache[config.n_layers - 1][pos * kvd + i] = state.k[i]
                /\ state.value_cache[config.n_layers - 1][pos * kvd + i] = state.v[i]

\* C6 witness: a forward call at position 1 of a two-layer model returned
\* with non-zero keys in the slots of positions 0 and 1 of both layers.
C6_Witness ==
    /\ pc = "next" /\ pos = 1 /\ config.n_layers = 2
    /\ \A l \in {0, 1} : \A p \in {0, 1} :
          \E i \in 0..(kv_dim(config) - 1) :
              state.key_cache[l][p * kv_dim(config) + i] # 0

\* A cache that agrees with `cache` on positions 0..p and holds other
\* values at every later position.
PerturbAfter(cache, p, c, junk) ==
    [i \in DOMAIN cache |->
        IF i >= (p + 1) * kv_dim(c) THEN junk + i ELSE cache[i]]

PerturbStateAfter(st, p, c, junk) ==
    [st EXCEPT
       !.key_cache = [l \in DOMAIN st.key_cache |->
                         PerturbAfter(st.key_cache[l], p, c, junk)],
       !.value_cache = [l \in DOMAIN st.value_cache |->
                           PerturbAfter(st.value_cache[l], p, c, junk)]]

JunkVals == {ONE, 0 - 3 * ONE}

\* C7: at position p every head's attention output, and the logits of the
\* whole forward call, are the same for a state whose caches differ only at
\* positions > p.  The heads are compared when their tasks start: q and the
\* caches do not change while they run.
C7_Causality ==
    /\ (pc = "heads" /\ DOMAIN head_outputs = {}) =>
          \A h \in 0..(config.n_heads - 1) :
              LET out == head_attention(h, pos, config, state.q,
                             state.key_cache[layer], state.value_cache[layer])
              IN  \A junk \in JunkVals :
                    head_attention(h, pos, config, state.q,
                        PerturbAfter(state.key_cache[layer], pos, config, junk),
                        PerturbAfter(state.value_cache[layer], pos, config, junk))
                    = out
    /\ (pc = "loop" /\ step < args.steps /\ pos < config.seq_len) =>
          LET out == forward(token, pos, config, state, weights).logits
          IN  \A junk \in JunkVals :
                forward(token, pos, config,
                        PerturbStateAfter(state, pos, config, junk), weights).logits
                = out

\* C7 witness: the heads of a call at position 1 run while the cache has a
\* later position (2) that a perturbation changes.
C7_Witness ==
    /\ pc = "heads" /\ pos = 1 /\ config.seq_len = 3
    /\ Len(order) = config.n_heads
    /\ PerturbAfter(state.key_cache[layer], pos, config, ONE) # state.key_cache[layer]

\* State part of C9: a finished head holds a vector of head_size elements;
\* when the output projection has run, every head had completed and xb
\* holds head h's result at h*head_size .. (h+1)*head_size - 1, whatever
\* the completion order.
C9_Gathered ==
    LET hs == config.dim \div config.n_heads
    IN  /\ pc = "heads" =>
              \A h \in DOMAIN head_outputs : DOMAIN head_outputs[h] = 0..(hs - 1)
        /\ pc = "mlp" =>
              /\ DOMAIN head_outputs = 0..(config.n_heads - 1)
              /\ Len(order) = config.n_heads
              /\ \A h \in 0..(config.n_heads - 1) : \A i \in 0..(hs - 1) :
                    state.xb[h * hs + i]
                    = head_attention(h, pos, config, state.q,
                                     state.key_cache[layer],
                                     state.value_cache[layer])[i]

\* Step part of C9: a head task changes nothing of the LlamaState and no
\* other head's result.
C9_TaskStep ==
    (pc = "heads" /\ pc' = "heads") =>
        /\ state' = state
        /\ \A h \in DOMAIN head_outputs :
              h \in DOMAIN head_outputs' /\ head_outputs'[h] = head_outputs[h]

\* C9: the head tasks of a layer run in any interleaving, read the shared
\* buffers only, fill disjoint slices of the attention buffer, are all
\* complete before the output projection, and the gathered buffer does not
\* depend on the completion order.
C9_HeadFanOut == [](C9_Gathered) /\ [][C9_TaskStep]_vars

\* C9 witness: four heads completed out of index order and the gathered
\* buffer holds different values for heads 0 and 1.
C9_Witness ==
    /\ pc = "mlp" /\ config.n_heads = 4
    /\ order[1] > order[2]
    /\ Slice(state.xb, 0, 2) # Slice(state.xb, 2, 4)

----------------------------------------------------------------------------
(* Claim about the grouped-query mapping, checked under SpecGqa *)

\* C8: query head h reads, at every position t of 0..p, exactly the
\* head_size entries of key/value head floor(h / group_size) of slot t, the
\* slice lies inside slot t, and with n_heads = 8, n_kv_heads = 2 heads 0-3
\* read key/value head 0 and heads 4-7 key/value head 1.
C8_GroupedQueryReads ==
    pc = "read" =>
        LET c == s_in.config
            h == s_in.h
            hs == c.dim \div c.n_heads
            kvd == (c.dim * c.n_kv_heads) \div c.n_heads
            g == c.n_heads \div c.n_kv_heads
            kvh == h \div g
        IN  /\ s_out = {t * kvd + kvh * hs + i : t \in 0..s_in.pos, i \in 0..(hs - 1)}
            /\ \A idx \in s_out :
                  /\ idx \div kvd \in 0..s_in.pos
                  /\ (idx % kvd) \div hs = kvh
            /\ kvh * hs + hs <= kvd
            /\ (c.n_heads = 8 /\ c.n_kv_heads = 2) =>
                  \A idx \in s_out :
                      (idx % kvd) \div hs = (IF h <= 3 THEN 0 ELSE 1)

\* C8 witness: head 5 of an 8-head, 2-key/value-head model read at
\* position 1.
C8_Witness ==
    /\ pc = "read"
    /\ s_in.config.n_heads = 8 /\ s_in.config.n_kv_heads = 2
    /\ s_in.h = 5 /\ s_in.pos = 1
    /\ s_out # {}

----------------------------------------------------------------------------
(* Claim about the sampler, checked under SpecSample *)

\* C10: for every non-empty finite logits vector, every temperature and
\* every top_p, sample returns an index i with 0 <= i < vocab_size.
C10_SampleInRange ==
    pc = "sampled" =>
        s_out.token \in 0..(Len0(s_in.logits) - 1)

\* C10 witness: the multinomial walk ran past the last index because the
\* rounded probabilities sum to no more than the draw, and the last index
\* was returned.
C10_Witness ==
    /\ pc = "sampled"
    /\ s_in.temp = ONE64 /\ s_in.topp = ONE64
    /\ Len0(s_in.logits) = 3
    /\ SumTo(s_out.logits, 3) <= s_in.r
    /\ s_out.token = 2

\* The largest value of a non-empty finite vector.
MaxLogit(lg) == CHOOSE m \in {lg[i] : i \in DOMAIN lg} : \A i \in DOMAIN lg : lg[i] <= m

\* The smallest index holding the largest value.
FirstMax(lg) ==
    CHOOSE i \in DOMAIN lg :
        lg[i] = MaxLogit(lg) /\ \A j \in DOMAIN lg : lg[j] = MaxLogit(lg) => i <= j

\* C11: with temperature 0, sample returns the smallest index whose logit
\* equals the maximum logit, whatever top_p and the draw of the random source
\* are: every other top_p and every other draw give the same index.  The
\* logits [0.1, 5.0, 0.3] give index 1.
C11_GreedyFirstMax ==
    (pc = "sampled" /\ s_in.temp = 0) =>
        /\ s_out.token = FirstMax(s_in.logits)
        /\ \A tp \in SampleTopps : \A r \in 0..(ONE - 1) :
              sample(s_in.logits, 0, tp, r).token = s_out.token
        /\ s_in.logits = ExampleLogits => s_out.token = 1

\* C11 witness: a greedy call in the top-p range with a non-zero draw, on a
\* vector whose maximum occurs at indices 1 and 2, returned index 1.
C11_Witness ==
    /\ pc = "sampled" /\ s_in.temp = 0
    /\ s_in.topp = ONE64 \div 2 /\ s_in.r = ONE - 1
    /\ Len0(s_in.logits) = 3
    /\ s_in.logits[0] < s_in.logits[1] /\ s_in.logits[1] = s_in.logits[2]
    /\ s_out.token = 1

----------------------------------------------------------------------------
(* Nucleus sampling as the specification words it, C12 *)

RECURSIVE PrefixMass(_, _)
\* The cumulative probability of the first k pairs of a sorted list.
PrefixMass(srt, k) ==
    IF k = 0 THEN 0 ELSE NAdd(PrefixMass(srt, k - 1), srt[k].prob)

\* srt lists every index once, with its probability, in descending order.
SortedDescending(srt, p) ==
    /\ Len(srt) = Len0(p)
    /\ \A i \in DOMAIN p : \E k \in 1..Len(srt) : srt[k].index = i
    /\ \A k \in 1..Len(srt) : srt[k].prob = p[srt[k].index]
    /\ \A j, k \in 1..Len(srt) : j < k => ~Gt(srt[k].prob, srt[j].prob)

\* The length of the shortest prefix whose mass exceeds the threshold th
\* (exceeds(m, th) is the comparison), the whole list if none does.
CandidateLen(srt, exceeds(_, _), th) ==
    LET crossing == {k \in 1..Len(srt) : exceeds(PrefixMass(srt, k), th)}
    IN  IF crossing = {} THEN Len(srt)
        ELSE CHOOSE k \in crossing : \A j \in crossing : k <= j

\* The index the walk over the first n pairs returns for the draw r, r * M
\* being the single-precision product.
NucleusPick(srt, n, r) ==
    LET r_scaled == NMul(r, PrefixMass(srt, n))
        above == {k \in 1..n : Lt(r_scaled, PrefixMass(srt, k))}
    IN  IF above = {} THEN srt[n].index
        ELSE srt[CHOOSE k \in above : \A j \in above : k <= j].index

\* A single-precision mass exceeds top_p itself, a double (units 1/ONE64).
ExceedsF64(m, th) == Finite(m) /\ Finite(th) /\ m * ONE > th

\* A single-precision mass exceeds top_p converted to single precision.
ExceedsF32(m, th) == Gt(m, F32Of(th))

\* The nucleus case of a finished call.
NucleusCase ==
    /\ pc = "sampled" /\ s_in.temp # 0
    /\ Finite(s_in.topp) /\ 0 < s_in.topp /\ s_in.topp < ONE64

\* The statement of C12 for a given reading of "exceeds top_p": the code's
\* candidate set (last_idx + 1 pairs of mass cum_prob) is the shortest
\* crossing prefix of the descending list, and the returned index is the
\* first of that prefix whose cumulative mass exceeds r * M, its last
\* element if there is none; so it is a member of the candidate set.
NucleusAsSpecified(exceeds(_, _)) ==
    LET probs == s_out.logits
        srt == sort_desc(probs)
        n == CandidateLen(srt, exceeds, s_in.topp)
        cut == CutFrom(srt, 0, 0, F32Of(s_in.topp))
    IN  /\ SortedDescending(srt, probs)
        /\ cut.last_idx + 1 = n
        /\ cut.cum_prob = PrefixMass(srt, n)
        /\ s_out.token = NucleusPick(srt, n, s_in.r)
        /\ s_out.token \in {srt[k].index : k \in 1..n}

\* C12 (as claimed): the candidate set is the shortest prefix whose
\* cumulative sum exceeds top_p, and the returned index is picked from it.
C12_NucleusExceedsTopP == NucleusCase => NucleusAsSpecified(ExceedsF64)

\* C12 (amended): the candidate set is the shortest prefix of the descending
\* list whose cumulative sum exceeds top_p converted to single precision
\* (the whole list if none does), M is its mass, and the returned index is
\* the first of the prefix whose cumulative mass exceeds the single-precision
\* product r * M, the last element of the prefix if none does.
C12_NucleusExceedsTopPF32 == NucleusCase => NucleusAsSpecified(ExceedsF32)

\* C12 witness: a nucleus call on three tokens whose candidate set is the
\* first two of the sorted list returned the second of them.
C12_Witness ==
    /\ NucleusCase /\ Len0(s_in.logits) = 3
    /\ CandidateLen(sort_desc(s_out.logits), ExceedsF32, s_in.topp) = 2
    /\ s_out.token = sort_desc(s_out.logits)[2].index
    /\ s_out.token # sort_desc(s_out.logits)[1].index

----------------------------------------------------------------------------
(* Multinomial sampling as the specification words it, C13 *)

RECURSIVE CumulativeProb(_, _)
\* The cumulative probability of indices 0..i in original order.
CumulativeProb(p, i) ==
    IF i < 0 THEN 0 ELSE NAdd(CumulativeProb(p, i - 1), p[i])

\* The multinomial case of a finished call.
MultinomialCase ==
    /\ pc = "sampled" /\ s_in.temp # 0
    /\ Finite(s_in.topp) /\ (s_in.topp <= 0 \/ s_in.topp >= ONE64)

\* C13: in the multinomial case sample returns the first index, in original
\* order, at which the cumulative probability exceeds the draw r, and the
\* last index if no cumulative sum exceeds r; with a draw of 0 it returns
\* the first index whose probability is positive.
C13_MultinomialFirstAbove ==
    MultinomialCase =>
        LET probs == s_out.logits
            above == {i \in DOMAIN probs : Lt(s_in.r, CumulativeProb(probs, i))}
            positive == {i \in DOMAIN probs : Gt(probs[i], 0)}
        IN  /\ above # {} =>
                  s_out.token \in above /\ \A i \in above : s_out.token <= i
            /\ above = {} => s_out.token = Len0(probs) - 1
            /\ (s_in.r = 0 /\ positive # {}) =>
                  s_out.token \in positive /\ \A i \in positive : s_out.token <= i

\* C13 witness: a multinomial call with top_p >= 1 and a draw of 0 on a
\* distribution whose first probability is 0 returned a later index, the
\* first one of positive probability.
C13_Witness ==
    /\ MultinomialCase /\ s_in.topp >= ONE64 /\ s_in.r = 0
    /\ s_out.logits[0] = 0
    /\ s_out.token > 0 /\ Gt(s_out.logits[s_out.token], 0)

----------------------------------------------------------------------------
(* Claim about the driving loop, checked under Spec *)

\* The loop of main.rs has been entered and left, by its end, by break or
\* by a panic inside forward.
LoopStopped == pc \in {"done", "panic"}

\* The loop is inside an iteration.
InIteration == pc \in {"attn", "heads", "mlp", "final", "next"}

EosProduced == \E k \in 1..Len(produced) : produced[k].tok = EOS

\* C14 (as claimed): the loop stops exactly when the token produced at a
\* step is the end-of-sequence id 2 or when `steps` iterations have been
\* executed, whichever comes first; while prompt tokens remain the produced
\* token is the next prompt token and the sampler is not called, and every
\* later token comes from the sampler.
C14_LoopStopsOnEosOrBudget ==
    /\ LoopStopped =>
          \/ Len(produced) > 0 /\ produced[Len(produced)].tok = EOS
          \/ Len(produced) = args.steps
    /\ (InIteration \/ pc = "loop") =>
          ~EosProduced /\ Len(produced) <= args.steps
    /\ InIteration => Len(produced) < args.steps
    /\ \A k \in 1..Len(produced) :
          /\ \A j \in 1..(k - 1) : produced[j].tok # EOS
          /\ IF k - 1 < Len0(tokens) - 1
             THEN produced[k] = [tok |-> tokens[k], src |-> "prompt"]
             ELSE produced[k].src = "sample"

====
